---- MODULE Spec2Model ----
(***************************************************************************)
(* A model of the movie analytics and recommendation service: the graph    *)
(* store (Person and Movie nodes, REVIEWED and cast/crew edges, and the    *)
(* User/RATED schema read by db_neo4j.py), the document store's movies     *)
(* collection, the request handlers that read or update them, the session  *)
(* dependency of config/database.py and the seeding script.  A handler is  *)
(* one action: it reads the stores and leaves, in resp, what the HTTP      *)
(* layer sends back.  Where the life of a session or the batches of the    *)
(* seeding are followed, a request or a run is several steps.              *)
(***************************************************************************)
EXTENDS Integers, Sequences, FiniteSets, TLC

VARIABLES
    persons,     \* names of the Person nodes of the graph store
    movies,      \* titles of the Movie nodes of the graph store
    released,    \* title -> release year, for the movies whose released is not null
    reviewed,    \* REVIEWED edges, <<person, title>>
    credits,     \* ACTED_IN / DIRECTED / WROTE / PRODUCED edges, <<person, type, title>>
    users,       \* names of the User nodes (the schema db_neo4j.py queries)
    rated,       \* RATED edges, <<user, title>>
    mongo_docs,  \* the title values of the documents of the movies collection
    mongo_cast,  \* the cast arrays of those documents, document by document
    movies_collection,  \* config/database.py: "collection", or "None" if the connection failed
    neo4j_driver,       \* config/database.py: "driver", or "None" if the connection failed
    requests,    \* the requests followed step by step through get_neo4j_session
    sessions,    \* per session the driver created, how often close() was called on it
    rels,        \* the relationships as stored: <<person, type, title, roles>> -> how many
    ratings,     \* REVIEWED edge -> its rating, for the edges that carry one
    seed,        \* seed.py: its input files and how far it got
    resp         \* the response to the last request

vars == <<persons, movies, released, reviewed, credits, users, rated, mongo_docs,
          mongo_cast, movies_collection, neo4j_driver, requests, sessions,
          rels, ratings, seed, resp>>

graph == <<persons, movies, released, reviewed, credits, users, rated>>

\* What the handlers of the graph store and the title reconciliation neither
\* read nor write.
rest == <<mongo_cast, movies_collection, neo4j_driver, requests, sessions,
          rels, ratings, seed>>

\* roles of an ACTED_IN relationship made by seed.py: [f"Role in {title}"],
\* kept as the title it is made of; the other types have no property.
RolesOf(type, title) == IF type = "ACTED_IN" THEN <<title>> ELSE <<>>

\* The relationships of a graph that holds each edge once.
RelsOf(rv, cr) ==
    [rel \in {<<e[1], "REVIEWED", e[2], <<>>>> : e \in rv}
            \cup {<<c[1], c[2], c[3], RolesOf(c[2], c[3])>> : c \in cr} |-> 1]

NoSeed == [pc |-> "done"]

\* A graph seeded before, each edge held once, no edge carrying a rating.
Seeded ==
    /\ rels = RelsOf(reviewed, credits)
    /\ ratings = <<>>
    /\ seed = NoSeed

\* Both stores connected, no request followed step by step.
Connected ==
    /\ movies_collection = "collection"
    /\ neo4j_driver = "driver"
    /\ requests = <<>> /\ sessions = <<>>

\* The rest of the state in its plain form: documents without a cast, both
\* stores connected.
PlainRest ==
    /\ mongo_cast = [i \in DOMAIN mongo_docs |-> <<>>]
    /\ Connected
    /\ Seeded

----------------------------------------------------------------------------
(* Bounds and universes.  A title is the sequence of its code points, so   *)
(* that lower-casing and the lexicographic order of strings are computed.  *)

MaxLimit == 2
MaxCredits == 2
MaxDocs == 2

Names == {"Ann", "Bob", "Cy"}

Heat == <<72, 101, 97, 116>>
HEAT == <<72, 69, 65, 84>>
Jaws == <<74, 97, 119, 115>>
Up == <<85, 112>>
JerryMaguire == <<74, 101, 114, 114, 121, 32, 77, 97, 103, 117, 105, 114, 101>>
jerry_maguire == <<106, 101, 114, 114, 121, 32, 109, 97, 103, 117, 105, 114, 101>>
ToyStory == <<84, 111, 121, 32, 83, 116, 111, 114, 121>>

Titles == {Heat, Jaws, Up}
Years == {1999, 2000}
CreditTypes == {"ACTED_IN", "DIRECTED", "WROTE"}

Min(a, b) == IF a <= b THEN a ELSE b

Range(s) == {s[i] : i \in 1..Len(s)}

RECURSIVE Perms(_)
Perms(S) ==
    IF S = {} THEN {<<>>}
    ELSE UNION {{<<x>> \o p : p \in Perms(S \ {x})} : x \in S}

RECURSIVE SumOver(_, _)
SumOver(S, f) ==
    IF S = {} THEN 0
    ELSE LET x == CHOOSE y \in S : TRUE IN f[x] + SumOver(S \ {x}, f)

----------------------------------------------------------------------------
(* The HTTP layer: a handler returns a value (200) or raises.  FastAPI     *)
(* answers an HTTPException with its status code and any other exception   *)
(* with 500.                                                               *)

Return(v) == [kind |-> "return", value |-> v]
Raise(cls, code) == [kind |-> "raise", cls |-> cls, status_code |-> code]

StatusOf(o) ==
    IF o.kind = "return" THEN 200
    ELSE IF o.cls = "HTTPException" THEN o.status_code
    ELSE 500

\* try: ... except Exception as e: raise HTTPException(status_code=500, ...)
\* HTTPException is an Exception, so one raised in the body is caught too.
ExceptException(o) ==
    IF o.kind = "raise" THEN Raise("HTTPException", 500) ELSE o

\* try: ... except HTTPException: raise; except Exception as e: raise HTTPException(500)
ExceptHTTPExceptionReraise(o) ==
    IF o.kind = "raise" /\ o.cls # "HTTPException" THEN Raise("HTTPException", 500) ELSE o

----------------------------------------------------------------------------
(* Graph store queries.                                                    *)

\* MATCH (m:Movie {title: $title}) RETURN m  .single()
MovieExists(title) == title \in movies

\* MATCH (p:Person {name: $name}) RETURN p  .single()
PersonExists(name) == name \in persons

YearOf(m) == IF m \in DOMAIN released THEN <<released[m]>> ELSE <<>>

Row(m, score) == [movie |-> m, score |-> score, year |-> YearOf(m)]

\* As Ordered, with the second key of ORDER BY left out.
OrderedByScore(ord, a, b) == a.score >= b.score

\* Whether row a may come before row b under the query's ORDER BY:
\*   "score":      ORDER BY score DESC
\*   "score_year": ORDER BY score DESC, rec.released DESC (every row of that
\*                 query has a year)
\* Rows that agree on the keys come in the order the store likes.
Ordered(ord, a, b) ==
    IF ord = "score_year"
    THEN \/ a.score > b.score
         \/ a.score = b.score /\ a.year[1] >= b.year[1]
    ELSE a.score >= b.score

\* As OrderLimit, with the LIMIT clause left out.
OrderNoLimit(rows, ord, limit) ==
    {p \in Perms(rows) : \A i, j \in 1..Len(p) : i < j => Ordered(ord, p[i], p[j])}

\* The row sequences an ORDER BY ... LIMIT $limit can produce from the rows:
\* any order the keys allow, cut to limit rows.
OrderLimit(rows, ord, limit) ==
    {SubSeq(s, 1, Min(limit, Len(s))) :
        s \in {p \in Perms(rows) :
                 \A i, j \in 1..Len(p) : i < j => Ordered(ord, p[i], p[j])}}

----------------------------------------------------------------------------
(* Movie recommendations: routers/recommendations.py.                      *)

\* As TitleDiffers, with the WHERE condition left out.
TitleAny(rec, title) == TRUE

\* WHERE rec.title <> $title
TitleDiffers(rec, title) == rec # title

\* (m:Movie {title: $title})<-[:REVIEWED]-(p:Person)-[:REVIEWED]->(rec:Movie)
\* The two relationships of one pattern are distinct edges.
CollaborativeMatches(title) ==
    {m \in reviewed \X reviewed :
        /\ m[1] # m[2]
        /\ m[1][2] = title
        /\ m[2][1] = m[1][1]
        /\ TitleDiffers(m[2][2], title)}

\* RETURN rec.title AS title, count(p) AS score, rec.released AS year
CollaborativeRows(title) ==
    LET ms == CollaborativeMatches(title)
    IN  {Row(rec, Cardinality({m \in ms : m[2][2] = rec})) :
            rec \in {m[2][2] : m \in ms}}

\* (m:Movie {title: $title})<-[:ACTED_IN|DIRECTED|WROTE]-(person:Person)
\*     -[:ACTED_IN|DIRECTED|WROTE]->(rec:Movie)
SimilarMatches(title) ==
    {m \in credits \X credits :
        /\ m[1] # m[2]
        /\ m[1][2] \in CreditTypes /\ m[2][2] \in CreditTypes
        /\ m[1][3] = title
        /\ m[2][1] = m[1][1]
        /\ TitleDiffers(m[2][3], title)}

\* RETURN rec.title AS title, count(person) AS score, rec.released AS year
SimilarRows(title) ==
    LET ms == SimilarMatches(title)
    IN  {Row(rec, Cardinality({m \in ms : m[2][3] = rec})) :
            rec \in {m[2][3] : m \in ms}}

\* As PopularScore, with the scores of later and earlier movies exchanged.
PopularScoreSwapped(rec, title) ==
    IF title \notin DOMAIN released THEN 1
    ELSE IF released[rec] = released[title] THEN 3
    ELSE IF released[rec] > released[title] THEN 1
    ELSE 2

\* CASE WHEN rec.released = target_year THEN 3 WHEN rec.released > target_year
\* THEN 2 ELSE 1 END; a comparison with a null target_year is null, so ELSE.
PopularScore(rec, title) ==
    IF title \notin DOMAIN released THEN 1
    ELSE IF released[rec] = released[title] THEN 3
    ELSE IF released[rec] > released[title] THEN 2
    ELSE 1

\* MATCH (rec:Movie) WHERE rec.title <> $title AND rec.released IS NOT NULL
PopularRows(title) ==
    {Row(rec, PopularScore(rec, title)) :
        rec \in {r \in movies : TitleDiffers(r, title) /\ r \in DOMAIN released}}

\* session.run(query, ..., limit=limit): a negative LIMIT is a query error.
RunQuery(rows, ord, limit) ==
    IF limit < 0 THEN {Raise("Neo4jError", 0)}
    ELSE {Return(r) : r \in OrderLimit(rows, ord, limit)}

Step(tier, q) == [tier |-> tier, ok |-> q.kind = "return",
                  rows |-> IF q.kind = "return" THEN q.value ELSE <<>>]

\* As FallbackNeeded, with the fallbacks run unconditionally.
FallbackAlways(recommendations) == TRUE

\* if not recommendations: the guard of each fallback.
FallbackNeeded(recommendations) == recommendations = <<>>

\* The body of the try block: what it returns or raises, and the tier
\* queries it ran on the way.
MovieRecBody(title, limit) ==
    IF ~MovieExists(title)
    THEN {[o |-> Raise("HTTPException", 404), trace |-> <<>>]}
    ELSE UNION {
        IF q1.kind = "raise" THEN {[o |-> q1, trace |-> <<Step(1, q1)>>]}
        ELSE LET rec1 == q1.value IN
        IF ~FallbackNeeded(rec1)
        THEN {[o |-> Return(rec1), trace |-> <<Step(1, q1)>>]}
        ELSE UNION {
            IF q2.kind = "raise"
            THEN {[o |-> q2, trace |-> <<Step(1, q1), Step(2, q2)>>]}
            ELSE LET rec2 == rec1 \o q2.value IN
            IF ~FallbackNeeded(rec2)
            THEN {[o |-> Return(rec2), trace |-> <<Step(1, q1), Step(2, q2)>>]}
            ELSE {[o |-> IF q3.kind = "raise" THEN q3 ELSE Return(rec2 \o q3.value),
                   trace |-> <<Step(1, q1), Step(2, q2), Step(3, q3)>>] :
                    q3 \in RunQuery(PopularRows(title), "score_year", limit)}
            : q2 \in RunQuery(SimilarRows(title), "score", limit)}
        : q1 \in RunQuery(CollaborativeRows(title), "score", limit)}

Response(op, target, limit, run, o) ==
    [op |-> op, target |-> target, limit |-> limit,
     status |-> StatusOf(o),
     body |-> IF o.kind = "return" THEN o.value ELSE <<>>,
     raised |-> run.o.kind = "raise",
     trace |-> run.trace]

get_movie_recommendations(title, limit) ==
        \E run \in MovieRecBody(title, limit) :
            /\ resp' = Response("get_movie_recommendations", title, limit,
                                run, ExceptException(run.o))
            /\ UNCHANGED <<graph, mongo_docs, rest>>

----------------------------------------------------------------------------
(* Person recommendations: routers/recommendations.py.                     *)

UserRow(m, score) == [movie |-> m, score |-> score]

\* As NotReviewedBy, with the WHERE NOT condition left out.
ReviewedOrNot(name, rec) == TRUE

\* WHERE NOT (p1)-[:REVIEWED]->(rec)
NotReviewedBy(name, rec) == <<name, rec>> \notin reviewed

\* (p1:Person {name: $name})-[:REVIEWED]->(m:Movie)<-[:REVIEWED]-(p2:Person)
\* WITH p1, p2, count(m) AS similarity
Similarity(name, p2) ==
    Cardinality({m \in reviewed \X reviewed :
        /\ m[1] # m[2]
        /\ m[1][1] = name /\ m[2][1] = p2
        /\ m[1][2] = m[2][2]})

\* WHERE similarity >= 1  MATCH (p2)-[:REVIEWED]->(rec:Movie)
\* WHERE NOT (p1)-[:REVIEWED]->(rec)
\* RETURN rec.title AS title, sum(similarity) AS score
UserCollaborativeRows(name) ==
    LET sim == [p2 \in persons |-> Similarity(name, p2)]
        nb == {p2 \in persons : sim[p2] >= 1}
        recs == {e[2] : e \in {e \in reviewed : e[1] \in nb /\ NotReviewedBy(name, e[2])}}
    IN  {UserRow(rec, SumOver({p2 \in nb : <<p2, rec>> \in reviewed}, sim)) : rec \in recs}

\* MATCH (rec:Movie)<-[:REVIEWED]-(other:Person) WHERE NOT (p)-[:REVIEWED]->(rec)
\* RETURN rec.title AS title, count(other) AS score
UserPopularRows(name) ==
    {UserRow(rec, Cardinality({e \in reviewed : e[2] = rec})) :
        rec \in {e[2] : e \in {e \in reviewed : NotReviewedBy(name, e[2])}}}

\* MATCH (rec:Movie) WHERE NOT (p)-[:REVIEWED]->(rec) AND rec.released IS NOT NULL
\* RETURN rec.title AS title, rec.released AS score
UserRecentRows(name) ==
    {UserRow(rec, released[rec]) :
        rec \in {r \in movies : NotReviewedBy(name, r) /\ r \in DOMAIN released}}

UserRecBody(name, limit) ==
    IF ~PersonExists(name)
    THEN {[o |-> Raise("HTTPException", 404), trace |-> <<>>]}
    ELSE UNION {
        IF q1.kind = "raise" THEN {[o |-> q1, trace |-> <<Step(1, q1)>>]}
        ELSE LET rec1 == q1.value IN
        IF ~FallbackNeeded(rec1)
        THEN {[o |-> Return(rec1), trace |-> <<Step(1, q1)>>]}
        ELSE UNION {
            IF q2.kind = "raise"
            THEN {[o |-> q2, trace |-> <<Step(1, q1), Step(2, q2)>>]}
            ELSE LET rec2 == q2.value IN
            IF ~FallbackNeeded(rec2)
            THEN {[o |-> Return(rec2), trace |-> <<Step(1, q1), Step(2, q2)>>]}
            ELSE {[o |-> IF q3.kind = "raise" THEN q3 ELSE Return(q3.value),
                   trace |-> <<Step(1, q1), Step(2, q2), Step(3, q3)>>] :
                    q3 \in RunQuery(UserRecentRows(name), "score", limit)}
            : q2 \in RunQuery(UserPopularRows(name), "score", limit)}
        : q1 \in RunQuery(UserCollaborativeRows(name), "score", limit)}

get_user_recommendations(name, limit) ==
        \E run \in UserRecBody(name, limit) :
            /\ resp' = Response("get_user_recommendations", name, limit,
                                run, ExceptException(run.o))
            /\ UNCHANGED <<graph, mongo_docs, rest>>

----------------------------------------------------------------------------
(* The recommendation service over a populated graph.                      *)

NoResp == [op |-> "none"]

\* Graphs of reviews: any people and movies of the universe, any release
\* years, any REVIEWED edges, no cast or crew.
ReviewGraph ==
    /\ persons \in SUBSET {"Ann", "Bob"}
    /\ movies \in SUBSET Titles
    /\ released \in UNION {[D -> Years] : D \in SUBSET movies}
    /\ reviewed \in SUBSET (persons \X movies)
    /\ credits = {}

\* Graphs of cast and crew: Ann has between one and MaxCredits cast/crew
\* edges and any reviews, Bob has none; the movies were all released in
\* 2000 or have no release year.
CastGraph ==
    /\ persons = {"Ann", "Bob"}
    /\ movies = Titles
    /\ released \in UNION {[D -> {2000}] : D \in {{}, movies}}
    /\ reviewed \in SUBSET ({"Ann"} \X movies)
    /\ credits \in {c \in SUBSET ({"Ann"} \X CreditTypes \X movies) :
                      Cardinality(c) \in 1..MaxCredits}

InitRec ==
    /\ ReviewGraph \/ CastGraph
    /\ users = {} /\ rated = {} /\ mongo_docs = <<>>
    /\ PlainRest
    /\ resp = NoResp

NextRec ==
    \/ \E title \in Titles, limit \in 1..MaxLimit :
            get_movie_recommendations(title, limit)
    \/ \E name \in {"Ann", "Bob"}, limit \in 1..MaxLimit :
            get_user_recommendations(name, limit)

SpecRec == InitRec /\ [][NextRec]_vars

----------------------------------------------------------------------------
(* Degrees of separation: routers/analytics.py.                            *)

PersonNode(name) == [labels |-> {"Person"}, props |-> [name |-> name]]
MovieNode(title) == [labels |-> {"Movie"}, props |-> [title |-> title]]

\* (a)-[:REVIEWED]-(b), the direction ignored.
Neighbours(n) ==
    IF "Person" \in n.labels
    THEN {MovieNode(e[2]) : e \in {e \in reviewed : e[1] = n.props.name}}
    ELSE {PersonNode(e[1]) : e \in {e \in reviewed : e[2] = n.props.title}}

\* The node sequences of the paths of k REVIEWED edges that start at node
\* from and visit no node twice.
RECURSIVE SimplePaths(_, _)
SimplePaths(from, k) ==
    IF k = 0 THEN {<<from>>}
    ELSE UNION {{Append(p, n) : n \in Neighbours(p[Len(p)]) \ Range(p)} :
                    p \in SimplePaths(from, k - 1)}

\* path = shortestPath((p1)-[:REVIEWED*]-(p2)): the paths of the least
\* number of edges, one or more, between the two nodes.
ShortestPaths(a, b) ==
    LET ending(k) == {p \in SimplePaths(a, k) : p[Len(p)] = b}
        lens == {k \in 1..(Cardinality(persons) + Cardinality(movies)) :
                    ending(k) # {}}
    IN  IF lens = {} THEN {}
        ELSE ending(CHOOSE k \in lens : \A l \in lens : k <= l)

\* MATCH (p:Person) WHERE p.name IN [$u1, $u2] RETURN count(p) as c
CountPeople(user1, user2) == Cardinality({p \in persons : p \in {user1, user2}})

\* MATCH (p1:Person {name: $user1}), (p2:Person {name: $user2}), path = ...
\* RETURN [n in nodes(path) | ...] as nodes  .single()
\* No row when a person is missing or no path exists; the store refuses
\* shortestPath between a node and itself.
PathQuery(user1, user2) ==
    IF user1 \notin persons \/ user2 \notin persons THEN {Return(<<>>)}
    ELSE IF user1 = user2 THEN {Raise("Neo4jError", 0)}
    ELSE LET ps == ShortestPaths(PersonNode(user1), PersonNode(user2))
         IN  IF ps = {} THEN {Return(<<>>)} ELSE {Return(<<p>>) : p \in ps}

\* if "Person" in labels: ... elif "Movie" in labels: ...
FormatNode(node) ==
    IF "Person" \in node.labels
    THEN <<[type |-> "Person", name |-> node.props.name]>>
    ELSE IF "Movie" \in node.labels
    THEN <<[type |-> "Movie", title |-> node.props.title]>>
    ELSE <<>>

RECURSIVE FormatPath(_)
FormatPath(path_nodes) ==
    IF path_nodes = <<>> THEN <<>>
    ELSE FormatNode(Head(path_nodes)) \o FormatPath(Tail(path_nodes))

\* As Degrees, counting the hops of the path.
Hops(formatted_path) == Len(formatted_path) - 1

\* (len(formatted_path) - 1) // 2
Degrees(formatted_path) == (Len(formatted_path) - 1) \div 2

NoPathMessage == [message |-> "No path found between these people"]

ShortestPathBody(user1, user2) ==
    IF CountPeople(user1, user2) < 2 THEN {Raise("HTTPException", 404)}
    ELSE {IF q.kind = "raise" THEN q
          ELSE IF q.value = <<>> THEN Return(NoPathMessage)
          ELSE LET formatted_path == FormatPath(q.value[1])
               IN  Return([degrees_of_separation |-> Degrees(formatted_path),
                           path |-> formatted_path])
          : q \in PathQuery(user1, user2)}

get_shortest_path(user1, user2) ==
    \E o \in ShortestPathBody(user1, user2) :
        /\ resp' = [op |-> "get_shortest_path", user1 |-> user1, user2 |-> user2,
                    status |-> StatusOf(o),
                    body |-> IF o.kind = "return" THEN o.value ELSE <<>>]
        /\ UNCHANGED <<graph, mongo_docs, rest>>

\* Graphs of reviews among up to three people, without release years.
InitPath ==
    /\ persons \in SUBSET Names
    /\ movies \in SUBSET Titles
    /\ released = <<>>
    /\ reviewed \in SUBSET (persons \X movies)
    /\ credits = {}
    /\ users = {} /\ rated = {} /\ mongo_docs = <<>>
    /\ PlainRest
    /\ resp = NoResp

NextPath == \E user1 \in Names, user2 \in Names : get_shortest_path(user1, user2)

SpecPath == InitPath /\ [][NextPath]_vars

----------------------------------------------------------------------------
(* Cross-store title reconciliation: app.py and app/main.py.               *)

\* str.lower, on the code points of the ASCII letters.
Lower(t) == [i \in 1..Len(t) |-> IF t[i] \in 65..90 THEN t[i] + 32 ELSE t[i]]

\* a < b for two strings: by code point, a proper prefix first.
StrLess(a, b) ==
    \E k \in 1..(Len(b)) :
        /\ \A i \in 1..(k - 1) : i <= Len(a) /\ a[i] = b[i]
        /\ \/ k = Len(a) + 1
           \/ k <= Len(a) /\ a[k] < b[k]

\* sorted(S)
RECURSIVE Sorted(_)
Sorted(S) ==
    IF S = {} THEN <<>>
    ELSE LET least == CHOOSE x \in S : \A y \in S \ {x} : StrLess(x, y)
         IN  <<least>> \o Sorted(S \ {least})

\* movies.distinct("title")
distinct_titles == Range(mongo_docs)

\* MATCH (m:Movie) RETURN m.title AS title
neo4j_movie_titles == movies

\* As CommonLowered, lower-casing the document store's titles only.
CommonLoweredOneSide(mongo, neo) == {Lower(t) : t \in mongo} \cap neo

\* set(map(str.lower, mongo)) & set(map(str.lower, neo))
CommonLowered(mongo, neo) == {Lower(t) : t \in mongo} \cap {Lower(t) : t \in neo}

\* app.py: return {"count": len(intersection), "titles": sorted(intersection)}
CommonMoviesResult(mongo, neo) ==
    LET intersection == CommonLowered(mongo, neo)
    IN  [count |-> Cardinality(intersection), titles |-> Sorted(intersection)]

api_common_movies ==
    /\ resp' = [op |-> "api_common_movies", status |-> 200,
                body |-> CommonMoviesResult(distinct_titles, neo4j_movie_titles)]
    /\ UNCHANGED <<graph, mongo_docs, rest>>

\* app/main.py: mongo_titles.intersection(neo4j_titles), on the titles as stored.
CommonCountResult(mongo_titles, neo4j_titles) ==
    LET common == mongo_titles \cap neo4j_titles
    IN  [mongo_count |-> Cardinality(mongo_titles),
         neo4j_count |-> Cardinality(neo4j_titles),
         common_count |-> Cardinality(common),
         common_titles |-> Sorted(common)]

\* The titles and the count of a CommonMoviesCount, under app.py's names.
get_common_movies ==
    LET r == CommonCountResult(Range(mongo_docs), movies)
    IN  /\ resp' = [op |-> "get_common_movies", status |-> 200,
                    body |-> [count |-> r.common_count, titles |-> r.common_titles,
                              mongo_count |-> r.mongo_count,
                              neo4j_count |-> r.neo4j_count]]
        /\ UNCHANGED <<graph, mongo_docs, rest>>

TitlePool == {JerryMaguire, jerry_maguire, ToyStory, Heat, HEAT}

RECURSIVE SeqsUpTo(_, _)
SeqsUpTo(S, n) ==
    IF n = 0 THEN {<<>>}
    ELSE LET shorter == SeqsUpTo(S, n - 1)
         IN  shorter \cup {Append(q, x) : q \in shorter, x \in S}

\* Two stores filled independently: up to MaxDocs documents (two may carry
\* the same title) and any Movie nodes.
InitRecon ==
    /\ mongo_docs \in SeqsUpTo(TitlePool, MaxDocs)
    /\ movies \in SUBSET TitlePool
    /\ persons = {} /\ released = <<>> /\ reviewed = {} /\ credits = {}
    /\ users = {} /\ rated = {}
    /\ PlainRest
    /\ resp = NoResp

NextRecon == api_common_movies \/ get_common_movies

SpecRecon == InitRecon /\ [][NextRecon]_vars

----------------------------------------------------------------------------
(* Lookups over one entity: app.py with db_neo4j.py, and app/main.py.      *)

Lookup(op, target, o) ==
    [op |-> op, target |-> target, status |-> StatusOf(o),
     body |-> IF o.kind = "return" THEN o.value ELSE <<>>]

\* db_neo4j.py: MATCH (u:User)-[:RATED]->(m:Movie {title: $title}) RETURN u.name
\* The rows come in the order the store likes.
users_who_rated(title) ==
    Perms({e[1] : e \in {e \in rated : e[2] = title /\ e[2] \in movies}})

\* app.py: if not users: raise HTTPException(status_code=404, ...)
api_users_who_rated(title) ==
    \E us \in users_who_rated(title) :
        /\ resp' = Lookup("api_users_who_rated", title,
                          IF us = <<>> THEN Raise("HTTPException", 404)
                          ELSE Return([movie |-> title, users |-> us]))
        /\ UNCHANGED <<graph, mongo_docs, rest>>

\* db_neo4j.py: MATCH (u:User {name: $name})-[r:RATED]->(m:Movie)
\* RETURN u.name AS name, count(m) AS count, collect(m.title) AS movies
\* Grouped by u.name: no match, no row, and user_profile returns {}.
user_profile(name) ==
    LET ms == {e[2] : e \in {e \in rated : e[1] = name /\ e[1] \in users}}
    IN  IF ms = {} THEN {<<>>}
        ELSE {[name |-> name, count |-> Cardinality(ms), movies |-> l] : l \in Perms(ms)}

\* app.py: if not prof: raise HTTPException(status_code=404, ...)
api_user_profile(name) ==
    \E prof \in user_profile(name) :
        /\ resp' = Lookup("api_user_profile", name,
                          IF prof = <<>> THEN Raise("HTTPException", 404)
                          ELSE Return(prof))
        /\ UNCHANGED <<graph, mongo_docs, rest>>

\* main.py: MATCH (p:Person {name: $name})-[:REVIEWED]->(m:Movie)
\* RETURN count(m) AS count, collect(m.title) AS movies
\* Not grouped: always one row, count 0 when nothing matches.
UserStatsRecord(name) ==
    LET ms == {e[2] : e \in {e \in reviewed : e[1] = name}}
    IN  {[count |-> Cardinality(ms), movies |-> l] : l \in Perms(ms)}

get_user_stats(name) ==
    \E record \in UserStatsRecord(name) :
        /\ resp' = Lookup("get_user_stats", name,
                IF record.count = 0
                THEN IF ~PersonExists(name) THEN Raise("HTTPException", 404)
                     ELSE Return([user |-> name, rated_movie_count |-> 0,
                                  rated_movies |-> <<>>])
                ELSE Return([user |-> name, rated_movie_count |-> record.count,
                             rated_movies |-> record.movies]))
        /\ UNCHANGED <<graph, mongo_docs, rest>>

\* main.py: MATCH (p:Person)-[:REVIEWED]->(m:Movie) WHERE m.title = $title
\* RETURN p.name AS person_name
ReviewersOf(title) == Perms({e[1] : e \in {e \in reviewed : e[2] = title}})

list_movie_raters(name) ==
    \E raters \in ReviewersOf(name) :
        /\ resp' = Lookup("list_movie_raters", name,
                ExceptHTTPExceptionReraise(
                    IF ~MovieExists(name) THEN Raise("HTTPException", 404)
                    ELSE Return([movie |-> name, raters |-> raters,
                                 raters_count |-> Len(raters)])))
        /\ UNCHANGED <<graph, mongo_docs, rest>>

\* main.py: ... RETURN p.name AS reviewer, r.rating AS rating, r.summary AS
\* summary ORDER BY r.rating DESC; the ratings are left out, any order stands.
get_movie_reviews(name) ==
    \E reviewers \in ReviewersOf(name) :
        /\ resp' = Lookup("get_movie_reviews", name,
                ExceptHTTPExceptionReraise(
                    IF ~MovieExists(name) THEN Raise("HTTPException", 404)
                    ELSE Return([movie |-> name,
                                 reviews |-> [i \in 1..Len(reviewers) |->
                                                [reviewer |-> reviewers[i]]],
                                 review_count |-> Len(reviewers)])))
        /\ UNCHANGED <<graph, mongo_docs, rest>>

\* A graph holding both schemas: Person nodes with REVIEWED edges and User
\* nodes with RATED edges, over the same movies.
InitLookup ==
    /\ persons \in SUBSET {"Ann", "Bob"}
    /\ users \in SUBSET {"Ann", "Bob"}
    /\ movies \in SUBSET {Heat, Jaws}
    /\ reviewed \in SUBSET (persons \X movies)
    /\ rated \in SUBSET (users \X movies)
    /\ released = <<>> /\ credits = {} /\ mongo_docs = <<>>
    /\ PlainRest
    /\ resp = NoResp

NextLookup ==
    \/ \E title \in {Heat, Jaws} : api_users_who_rated(title)
    \/ \E name \in {"Ann", "Bob"} : api_user_profile(name)
    \/ \E name \in {"Ann", "Bob"} : get_user_stats(name)
    \/ \E name \in {Heat, Jaws} : list_movie_raters(name)
    \/ \E name \in {Heat, Jaws} : get_movie_reviews(name)

SpecLookup == InitLookup /\ [][NextLookup]_vars

----------------------------------------------------------------------------
(* Properties of the recommendation handlers, under SpecRec.               *)

IsMovieRec == resp.op = "get_movie_recommendations"
IsUserRec == resp.op = "get_user_recommendations"
IsRec == IsMovieRec \/ IsUserRec

BodyMovies == {resp.body[i].movie : i \in 1..Len(resp.body)}

\* C1: a recommendation request whose target movie title / person name is
\* not in the graph store is answered with NotFound (HTTP 404).
C1_AbsentTargetIsNotFound ==
    /\ IsMovieRec /\ resp.target \notin movies => resp.status = 404
    /\ IsUserRec /\ resp.target \notin persons => resp.status = 404

\* C2: the tier queries run in the order 1, 2, 3; tier 2 runs exactly when
\* tier 1 returned no rows and tier 3 exactly when tiers 1 and 2 both
\* returned no rows; the list returned is the rows of one tier, the last
\* one run, every earlier tier having returned none.
C2_TiersInOrderNeverMixed ==
    IsRec =>
        LET t == resp.trace
            n == Len(resp.trace)
        IN  /\ n <= 3
            /\ \A i \in 1..n : t[i].tier = i
            /\ (resp.status = 200) => (n >= 1)
            /\ (n >= 2) <=> (n >= 1 /\ t[1].rows = <<>>)
            /\ (n >= 3) <=> (n >= 2 /\ t[1].rows = <<>> /\ t[2].rows = <<>>)
            /\ (resp.status = 200) =>
                  /\ resp.body = t[n].rows
                  /\ \A i \in 1..(n - 1) : t[i].rows = <<>>

\* C2's case: a movie request answered from tier 2 on a graph where tier 3
\* would have had rows too.
C2_Witness ==
    /\ IsMovieRec /\ resp.status = 200
    /\ Len(resp.trace) = 2 /\ resp.body # <<>>
    /\ PopularRows(resp.target) # {}

\* C3: the list a recommendation request returns for an existing target and
\* a positive limit has at most limit entries.
C3_AtMostLimit ==
    IsRec /\ resp.status = 200 /\ resp.limit > 0 => Len(resp.body) <= resp.limit

\* C3's case: more collaborative candidates than the limit allows.
C3_Witness ==
    /\ IsMovieRec /\ resp.status = 200
    /\ Cardinality(CollaborativeRows(resp.target)) > resp.limit
    /\ Len(resp.body) = resp.limit

\* C4: no movie the target person has a REVIEWED edge to is in the list
\* get_user_recommendations returns, whichever tier produced it.
C4_NeverAlreadyReviewed ==
    IsUserRec /\ resp.status = 200 =>
        \A m \in BodyMovies : <<resp.target, m>> \notin reviewed

\* C4's case: the recency tier answers a person who has reviewed a movie
\* with a known release year.
C4_Witness ==
    /\ IsUserRec /\ resp.status = 200
    /\ Len(resp.trace) = 3 /\ resp.body # <<>>
    /\ \E m \in DOMAIN released : <<resp.target, m>> \in reviewed

\* C5: the list get_movie_recommendations returns never holds the target
\* movie's own title, whichever tier produced it.
C5_NeverTheTargetItself ==
    IsMovieRec /\ resp.status = 200 => resp.target \notin BodyMovies

\* C5's case: the collaborative tier answers for a movie that shares a
\* reviewer with another movie.
C5_Witness ==
    /\ IsMovieRec /\ resp.status = 200
    /\ Len(resp.trace) = 1 /\ resp.body # <<>>
    /\ \E p \in persons : <<p, resp.target>> \in reviewed

----------------------------------------------------------------------------
(* Properties of get_shortest_path, under SpecPath.                        *)

IsPath == resp.op = "get_shortest_path"
IsNotFound == resp.status = 404
IsNoPathFound == resp.status = 200 /\ resp.body = NoPathMessage
IsPathResult == resp.status = 200 /\ resp.body # NoPathMessage

\* The people a walk of one or more REVIEWED edges, direction ignored,
\* leads to from the people of S: those who reviewed a movie one of S did.
CoReviewers(S) ==
    {q \in persons : \E p \in S, m \in movies :
        <<p, m>> \in reviewed /\ <<q, m>> \in reviewed}

RECURSIVE Closure(_)
Closure(S) ==
    LET T == S \cup CoReviewers(S) IN IF T = S THEN S ELSE Closure(T)

Linked(a, b) == b \in Closure(CoReviewers({a}))

\* C6: a request naming a person absent from the graph is NotFound (never
\* NoPathFound); a request naming two existing people whom no path of
\* REVIEWED edges connects is NoPathFound, which is neither NotFound nor a
\* path result.
C6_PathOutcomeClassified ==
    IsPath =>
        /\ (resp.user1 \notin persons \/ resp.user2 \notin persons)
              => IsNotFound /\ ~IsNoPathFound
        /\ (resp.user1 \in persons /\ resp.user2 \in persons
              /\ ~Linked(resp.user1, resp.user2))
              => IsNoPathFound /\ ~IsNotFound /\ ~IsPathResult

PathType(i) == resp.body.path[i].type

\* C7: a path result starts and ends with a Person, alternates Person and
\* Movie, has an odd number of nodes, and its degrees_of_separation is
\* (node count - 1) / 2; two people who reviewed a common movie get a path
\* of 3 nodes (Person, Movie, Person) and degrees_of_separation 1.
C7_PathShapeAndDegrees ==
    /\ IsPath /\ IsPathResult =>
        LET n == Len(resp.body.path) IN
        /\ n % 2 = 1
        /\ \A i \in 1..n : PathType(i) = IF i % 2 = 1 THEN "Person" ELSE "Movie"
        /\ resp.body.path[1].name = resp.user1
        /\ resp.body.path[n].name = resp.user2
        /\ 2 * resp.body.degrees_of_separation = n - 1
    /\ (/\ IsPath /\ resp.user1 # resp.user2
        /\ \E m \in movies : <<resp.user1, m>> \in reviewed
                             /\ <<resp.user2, m>> \in reviewed)
        => /\ IsPathResult
           /\ Len(resp.body.path) = 3
           /\ resp.body.degrees_of_separation = 1

\* C7's case: a path through two movies and a third person.
C7_Witness ==
    /\ IsPath /\ IsPathResult
    /\ Len(resp.body.path) = 5
    /\ resp.body.degrees_of_separation = 2

----------------------------------------------------------------------------
(* Properties of the cross-store reconciliation, under SpecRecon.          *)

IsCommon == resp.op \in {"api_common_movies", "get_common_movies"}

\* The titles two stores have in common when case is ignored, ascending.
CaseInsensitiveCommon(docs, nodes) ==
    Sorted({l \in {Lower(t) : t \in docs} : \E g \in nodes : Lower(g) = l})

\* C8: the common-movies operation matches the two stores' titles with both
\* sides lower-cased and returns the intersection sorted ascending on the
\* lower-cased form with its size as the count; ["Jerry Maguire",
\* "Toy Story"] against ["jerry maguire", "Heat"] gives ["jerry maguire"], 1.
C8_CaseInsensitiveIntersection ==
    IsCommon =>
        /\ resp.body.titles = CaseInsensitiveCommon(Range(mongo_docs), movies)
        /\ resp.body.count = Len(resp.body.titles)
        /\ (mongo_docs = <<JerryMaguire, ToyStory>> /\ movies = {jerry_maguire, Heat})
              => resp.body.titles = <<jerry_maguire>> /\ resp.body.count = 1

\* C9: with the two inputs swapped, the reconciliation gives the same set of
\* common titles and the same count.
C9_ReconciliationCommutes ==
    /\ resp.op = "api_common_movies" =>
        LET swapped == CommonMoviesResult(neo4j_movie_titles, distinct_titles)
        IN  /\ Range(resp.body.titles) = Range(swapped.titles)
            /\ resp.body.count = swapped.count
    /\ resp.op = "get_common_movies" =>
        LET swapped == CommonCountResult(movies, Range(mongo_docs))
        IN  /\ Range(resp.body.titles) = Range(swapped.common_titles)
            /\ resp.body.count = swapped.common_count

\* C9's case: the stores hold different titles, one of them in common once
\* case is ignored.
C9_Witness ==
    /\ resp.op = "api_common_movies"
    /\ Range(mongo_docs) # movies
    /\ resp.body.count = 1
    /\ Range(resp.body.titles) # Range(mongo_docs) \cap movies

----------------------------------------------------------------------------
(* Properties of the lookups, under SpecLookup.                            *)

IsLookup ==
    resp.op \in {"api_users_who_rated", "api_user_profile", "get_user_stats",
                 "list_movie_raters", "get_movie_reviews"}

\* The entity a lookup is about is in the store.
EntityExists ==
    CASE resp.op = "api_users_who_rated" -> resp.target \in movies
      [] resp.op = "api_user_profile" -> resp.target \in users
      [] resp.op = "get_user_stats" -> resp.target \in persons
      [] OTHER -> resp.target \in movies

\* The entity has nothing associated with it.
NoResults ==
    CASE resp.op = "api_users_who_rated" -> ~\E u \in users : <<u, resp.target>> \in rated
      [] resp.op = "api_user_profile" -> ~\E m \in movies : <<resp.target, m>> \in rated
      [] resp.op = "get_user_stats" -> ~\E m \in movies : <<resp.target, m>> \in reviewed
      [] OTHER -> ~\E p \in persons : <<p, resp.target>> \in reviewed

\* The list of results a successful lookup carries.
ResultList ==
    CASE resp.op = "api_users_who_rated" -> resp.body.users
      [] resp.op = "api_user_profile" -> resp.body.movies
      [] resp.op = "get_user_stats" -> resp.body.rated_movies
      [] resp.op = "list_movie_raters" -> resp.body.raters
      [] OTHER -> resp.body.reviews

\* C10: a lookup of an entity that exists and has no associated results
\* succeeds with an empty result, and a lookup is NotFound only when the
\* entity itself is absent.
C10_EmptyIsNotNotFound ==
    IsLookup =>
        /\ EntityExists /\ NoResults => resp.status = 200 /\ ResultList = <<>>
        /\ resp.status = 404 => ~EntityExists

----------------------------------------------------------------------------
(* The existence check of get_shortest_path, under SpecPath.               *)

\* C20: get_shortest_path is NotFound only when at least one of the two
\* names is absent from the graph; for two existing names, user1 = user2
\* included, the outcome is a path result or NoPathFound.
C20_NotFoundOnlyForAbsentPerson ==
    IsPath =>
        /\ IsNotFound => (resp.user1 \notin persons \/ resp.user2 \notin persons)
        /\ (resp.user1 \in persons /\ resp.user2 \in persons)
              => (IsPathResult \/ IsNoPathFound)

----------------------------------------------------------------------------
(* The fallback for a movie nobody reviewed, under SpecRec.                *)

\* The request named an existing movie that has no REVIEWED edge and a
\* known release year.
UnreviewedWithYear ==
    /\ IsMovieRec
    /\ resp.target \in movies
    /\ ~\E p \in persons : <<p, resp.target>> \in reviewed
    /\ resp.target \in DOMAIN released

\* Somebody with a cast or crew edge to the target has one to another movie.
SharesCastOrCrew ==
    \E c1, c2 \in credits :
        /\ c1[3] = resp.target /\ c2[3] # resp.target
        /\ c1[1] = c2[1]

\* The score the release-year comparison gives a movie.
YearScore(rec, target) ==
    IF released[rec] = released[target] THEN 3
    ELSE IF released[rec] > released[target] THEN 2 ELSE 1

\* The response is made of rows of the third tier alone.
TierThreeOnly ==
    /\ resp.status = 200
    /\ Len(resp.trace) = 3
    /\ resp.trace[1].rows = <<>> /\ resp.trace[2].rows = <<>>
    /\ resp.body = resp.trace[3].rows
    /\ \A i \in 1..Len(resp.body) :
          /\ resp.body[i].movie \in DOMAIN released
          /\ resp.body[i].score = YearScore(resp.body[i].movie, resp.target)

\* C13 as stated: get_movie_recommendations on an existing movie with zero
\* REVIEWED edges and a known release year returns tier-3 results only, every
\* score being the 1, 2 or 3 of the release-year comparison.
C13_UnreviewedGetsTierThreeOnly == UnreviewedWithYear => TierThreeOnly

\* C13 as the code has it: the same, for a movie that in addition shares no
\* cast or crew member with another movie (else tier 2 answers).
C13_UnreviewedUnsharedGetsTierThreeOnly ==
    UnreviewedWithYear /\ ~SharesCastOrCrew => TierThreeOnly

\* C13's case: tier 3 answered for such a movie, with a later movie in it.
C13_Witness ==
    /\ UnreviewedWithYear /\ ~SharesCastOrCrew
    /\ \E i \in 1..Len(resp.body) : resp.body[i].score = 2

----------------------------------------------------------------------------
(* Movie recommendations over cast and crew: graphs where nobody reviewed  *)
(* anything, so that the content-similarity tier answers.                  *)

MaxCast == 3

InitCast ==
    /\ persons = {"Ann", "Bob"}
    /\ movies = {Heat, Jaws}
    /\ released = [m \in movies |-> 2000]
    /\ reviewed = {}
    /\ credits \in {c \in SUBSET (persons \X CreditTypes \X movies) :
                      Cardinality(c) <= MaxCast}
    /\ users = {} /\ rated = {} /\ mongo_docs = <<>>
    /\ PlainRest
    /\ resp = NoResp

NextCast ==
    \E title \in {Heat, Jaws}, limit \in 1..MaxLimit :
        get_movie_recommendations(title, limit)

SpecCast == InitCast /\ [][NextCast]_vars

\* The people with a cast or crew edge to both movies.
SharedPeople(a, b) ==
    {p \in persons : /\ \E c \in credits : c[1] = p /\ c[3] = a
                     /\ \E c \in credits : c[1] = p /\ c[3] = b}

\* C17: the score of a tier-2 (content-similarity) row is the number of
\* distinct people with an ACTED_IN, DIRECTED or WROTE edge to both the
\* target and the candidate; somebody connected through more than one edge
\* type counts once.
C17_TierTwoCountsDistinctPeople ==
    (IsMovieRec /\ resp.status = 200 /\ Len(resp.trace) = 2) =>
        \A i \in 1..Len(resp.body) :
            resp.body[i].score =
                Cardinality(SharedPeople(resp.target, resp.body[i].movie))

----------------------------------------------------------------------------
(* Movie recommendations by release year: graphs without reviews, cast or  *)
(* crew, so that the popularity/recency tier answers.                      *)

YearTitles == {Heat, Jaws, Up, ToyStory}
ReleaseYears == {1999, 2000, 2001}

InitYears ==
    /\ persons = {}
    /\ movies \in SUBSET YearTitles
    /\ released \in UNION {[D -> ReleaseYears] : D \in SUBSET movies}
    /\ reviewed = {} /\ credits = {}
    /\ users = {} /\ rated = {} /\ mongo_docs = <<>>
    /\ PlainRest
    /\ resp = NoResp

NextYears ==
    \E title \in YearTitles, limit \in 1..MaxLimit :
        get_movie_recommendations(title, limit)

SpecYears == InitYears /\ [][NextYears]_vars

\* The movies tier 3 may recommend for the target of the request.
DatedOthers == {m \in movies : m # resp.target /\ m \in DOMAIN released}

\* Whether movie a stands before movie b by score, then by release year,
\* both descending.
RanksBefore(a, sa, b, sb) ==
    sa > sb \/ (sa = sb /\ released[a] > released[b])

\* C18: the tier-3 rows are movies other than the target with a known
\* release year, all of them up to the cap of limit; a row's score is 3 if
\* its release year equals the target's, 2 if later, 1 if earlier; the rows
\* are ordered by score descending, then by release year descending.
C18_TierThreeByReleaseYear ==
    (IsMovieRec /\ resp.status = 200 /\ Len(resp.trace) = 3) =>
        LET n == Len(resp.body) IN
        /\ BodyMovies \subseteq DatedOthers
        /\ \A i, j \in 1..n : i # j => resp.body[i].movie # resp.body[j].movie
        /\ n = Min(resp.limit, Cardinality(DatedOthers))
        /\ resp.target \in DOMAIN released =>
              \A i \in 1..n :
                  LET y == released[resp.body[i].movie]
                      t == released[resp.target]
                  IN  resp.body[i].score =
                          IF y = t THEN 3 ELSE IF y > t THEN 2 ELSE 1
        /\ \A i, j \in 1..n : i < j =>
              ~RanksBefore(resp.body[j].movie, resp.body[j].score,
                           resp.body[i].movie, resp.body[i].score)
        /\ resp.target \in DOMAIN released =>
              \A m \in DatedOthers \ BodyMovies : \A i \in 1..n :
                  LET y == released[m]
                      t == released[resp.target]
                  IN  ~RanksBefore(m, IF y = t THEN 3 ELSE IF y > t THEN 2 ELSE 1,
                                   resp.body[i].movie, resp.body[i].score)

\* C18's case: three candidates, two of them returned with the same score
\* and different release years, the third cut by the limit.
C18_Witness ==
    /\ IsMovieRec /\ resp.status = 200 /\ Len(resp.trace) = 3
    /\ resp.target \in DOMAIN released
    /\ Cardinality(DatedOthers) = 3
    /\ Len(resp.body) = 2
    /\ resp.body[1].score = resp.body[2].score
    /\ released[resp.body[1].movie] # released[resp.body[2].movie]

----------------------------------------------------------------------------
(* Movie search in the document store: db_mongo.py and app.py.             *)

Al == <<65, 108>>
Val == <<86, 97, 108>>

FindLimit == 50

\* {"$regex": pattern, "$options": "i"} on a string, for a pattern of
\* letters and digits: the pattern occurs in the string, case ignored.
RegexI(pattern, s) ==
    \E i \in 1..(Len(s) - Len(pattern) + 1) :
        Lower(SubSeq(s, i, i + Len(pattern) - 1)) = Lower(pattern)

\* The document at position i of the collection, without its _id.
Doc(i) == [title |-> mongo_docs[i], cast |-> mongo_cast[i]]

\* Whether the document matches {field: {"$regex": pattern, "$options": "i"}};
\* an array field matches when one of its elements does.
DocMatches(i, field, pattern) ==
    IF field = "title" THEN RegexI(pattern, mongo_docs[i])
    ELSE \E k \in DOMAIN mongo_cast[i] : RegexI(pattern, mongo_cast[i][k])

\* list(movies.find(q, {"_id": 0}).limit(limit)), in the collection's order;
\* limit(0) is no limit.
FindRegex(field, pattern, limit) ==
    LET Hit(i) == DocMatches(i, field, pattern)
        hits == SelectSeq([i \in DOMAIN mongo_docs |-> i], Hit)
        n == IF limit = 0 THEN Len(hits) ELSE Min(limit, Len(hits))
    IN  [k \in 1..n |-> Doc(hits[k])]

\* if title: ... elif actor: ... else: return []
\* None and the empty string are both the empty sequence here.
find_by_title_or_actor(title, actor, limit) ==
    IF title # <<>> THEN FindRegex("title", title, limit)
    ELSE IF actor # <<>> THEN FindRegex("cast", actor, limit)
    ELSE <<>>

\* app.py: if not data: raise HTTPException(status_code=404, ...)
api_find_movie(title, actor, limit) ==
    LET data == find_by_title_or_actor(title, actor, limit)
        o == IF data = <<>> THEN Raise("HTTPException", 404) ELSE Return(data)
    IN  /\ resp' = [op |-> "api_find_movie", title |-> title, actor |-> actor,
                    status |-> StatusOf(o),
                    body |-> IF o.kind = "return" THEN o.value ELSE <<>>]
        /\ UNCHANGED <<graph, mongo_docs, rest>>

----------------------------------------------------------------------------
(* Requests with any limit and any pair of search filters.                 *)

CastPool == {<<>>, <<Al>>, <<Val>>}

InitInput ==
    /\ persons = {"Ann"}
    /\ movies = {Heat, Jaws}
    /\ released \in {<<>>, [m \in movies |-> 2000]}
    /\ reviewed \in SUBSET (persons \X movies)
    /\ credits = {} /\ users = {} /\ rated = {}
    /\ mongo_docs \in SeqsUpTo({Heat, HEAT, Up}, MaxDocs)
    /\ mongo_cast \in [DOMAIN mongo_docs -> CastPool]
    /\ Connected /\ Seeded
    /\ resp = NoResp

NextInput ==
    \/ \E title \in {Heat, Up}, limit \in -1..1 :
            get_movie_recommendations(title, limit)
    \/ \E name \in {"Ann", "Bob"}, limit \in -1..1 :
            get_user_recommendations(name, limit)
    \/ \E title \in {<<>>, Heat, Up}, actor \in {<<>>, Al} :
            api_find_movie(title, actor, FindLimit)

SpecInput == InitInput /\ [][NextInput]_vars

IsInvalidInput == resp.status \in {400, 422}

IsFind == resp.op = "api_find_movie"

\* C12: a recommendation request with limit <= 0 is InvalidInput, and so is
\* a movie search that names both a title and an actor.
C12_BadInputIsInvalidInput ==
    /\ (IsRec /\ resp.limit <= 0) => IsInvalidInput
    /\ (IsFind /\ resp.title # <<>> /\ resp.actor # <<>>) => IsInvalidInput

----------------------------------------------------------------------------
(* The document store's handlers of app/main.py, which look at             *)
(* movies_collection before they use it.                                   *)

ListLimit == 100
SearchLimit == 50

NotAvailable == [message |-> "MongoDB is not available", movies |-> <<>>]

\* [fix_mongo_doc(doc) for doc in movies_collection.find(query).limit(limit)]
\* query: "all" for {}, else the field a case-insensitive regex is applied to.
FindDocs(field, pattern, limit) ==
    LET Hit(i) == field = "all" \/ DocMatches(i, field, pattern)
        hits == SelectSeq([i \in DOMAIN mongo_docs |-> i], Hit)
        n == IF limit = 0 THEN Len(hits) ELSE Min(limit, Len(hits))
    IN  [k \in 1..n |-> Doc(hits[k])]

\* main.py: if movies_collection is None: return {"message": ..., "movies": []}
list_movies(limit) ==
    /\ resp' = [op |-> "list_movies", status |-> 200,
                body |-> IF movies_collection = "None" THEN NotAvailable
                         ELSE FindDocs("all", <<>>, limit)]
    /\ UNCHANGED <<graph, mongo_docs, rest>>

\* main.py: the same test, then if name: title regex, elif actor: cast regex.
search_movie(name, actor) ==
    /\ resp' = [op |-> "search_movie", status |-> 200,
                body |-> IF movies_collection = "None" THEN NotAvailable
                         ELSE IF name # <<>> THEN FindDocs("title", name, SearchLimit)
                         ELSE IF actor # <<>> THEN FindDocs("cast", actor, SearchLimit)
                         ELSE FindDocs("all", <<>>, SearchLimit)]
    /\ UNCHANGED <<graph, mongo_docs, rest>>

----------------------------------------------------------------------------
(* Requests while the document store may have failed to connect, or with   *)
(* a limit the graph store rejects.                                        *)

InitOutage ==
    /\ persons = {"Ann"}
    /\ movies = {Heat, Jaws}
    /\ released \in {<<>>, [m \in movies |-> 2000]}
    /\ reviewed \in SUBSET (persons \X movies)
    /\ credits = {} /\ users = {} /\ rated = {}
    /\ mongo_docs \in SeqsUpTo({Heat, Up}, MaxDocs)
    /\ mongo_cast \in [DOMAIN mongo_docs -> CastPool]
    /\ movies_collection \in {"collection", "None"}
    /\ neo4j_driver = "driver"
    /\ requests = <<>> /\ sessions = <<>>
    /\ Seeded
    /\ resp = NoResp

NextOutage ==
    \/ list_movies(ListLimit)
    \/ \E name \in {<<>>, Heat}, actor \in {<<>>, Al} : search_movie(name, actor)
    \/ \E title \in {Heat, Up}, limit \in {-1, 1} :
            get_movie_recommendations(title, limit)
    \/ \E name \in {"Ann", "Bob"}, limit \in {-1, 1} :
            get_user_recommendations(name, limit)

SpecOutage == InitOutage /\ [][NextOutage]_vars

IsStoreUnavailable == resp.status \in {500, 503}

\* The request read the document store while it was not connected.
MongoWasDown ==
    resp.op \in {"list_movies", "search_movie"} /\ movies_collection = "None"

\* A query of the recommendation request failed.
QueryFailed ==
    IsRec /\ resp.trace # <<>> /\ ~resp.trace[Len(resp.trace)].ok

\* C11: when the store a request needs is unavailable, or one of its queries
\* fails, the outcome is StoreUnavailable; no request answers with a success
\* then (list_movies and search_movie in particular, when the document store
\* failed to connect).
C11_FailureIsStoreUnavailable ==
    (MongoWasDown \/ QueryFailed) => IsStoreUnavailable

----------------------------------------------------------------------------
(* The session dependency: config/database.py.  A request that depends on  *)
(* get_neo4j_session runs the generator up to its yield, then the handler, *)
(* then the rest of the generator; requests interleave.                    *)

MaxRequests == 2
MaxSessions == 3

NoSession == 0

Waiting == [pc |-> "depends", session |-> NoSession, exit |-> "none"]

\* As FinallyRuns, for a generator that closes after its yield without
\* try/finally: an exception thrown in at the yield skips the close.
ClosedAfterYield(exit) == exit = "return"

\* try: yield session  finally: session.close()
\* The close runs however the handler left: by return or by raise.
FinallyRuns(exit) == exit \in {"return", "raise"}

\* if neo4j_driver is None: raise Exception(...)
\* session = neo4j_driver.session(); ... yield session
get_neo4j_session(r) ==
    /\ requests[r].pc = "depends"
    /\ IF neo4j_driver = "None"
       THEN /\ requests' = [requests EXCEPT ![r].pc = "done", ![r].exit = "raise"]
            /\ sessions' = sessions
            /\ resp' = [op |-> "get_neo4j_session",
                        status |-> StatusOf(Raise("Exception", 0))]
       ELSE /\ sessions' = Append(sessions, 0)
            /\ requests' = [requests EXCEPT ![r].pc = "handler",
                                            ![r].session = Len(sessions) + 1]
            /\ resp' = resp
    /\ UNCHANGED <<graph, mongo_docs, mongo_cast, rels, ratings, seed,
                   movies_collection, neo4j_driver>>

\* The handler of a request that holds a session: get_movie_recommendations.
handle_movie_recommendations(r, title, limit) ==
    /\ requests[r].pc = "handler"
    /\ \E run \in MovieRecBody(title, limit) :
          LET o == ExceptException(run.o) IN
          /\ resp' = Response("get_movie_recommendations", title, limit, run, o)
          /\ requests' = [requests EXCEPT ![r].pc = "finally", ![r].exit = o.kind]
    /\ UNCHANGED <<graph, mongo_docs, mongo_cast, rels, ratings, seed,
                   movies_collection, neo4j_driver,
                   sessions>>

\* The handler of a request that holds a session: get_shortest_path.
handle_shortest_path(r, user1, user2) ==
    /\ requests[r].pc = "handler"
    /\ \E o \in ShortestPathBody(user1, user2) :
          /\ resp' = [op |-> "get_shortest_path", user1 |-> user1, user2 |-> user2,
                      status |-> StatusOf(o),
                      body |-> IF o.kind = "return" THEN o.value ELSE <<>>]
          /\ requests' = [requests EXCEPT ![r].pc = "finally", ![r].exit = o.kind]
    /\ UNCHANGED <<graph, mongo_docs, mongo_cast, rels, ratings, seed,
                   movies_collection, neo4j_driver,
                   sessions>>

\* finally: session.close()
close_neo4j_session(r) ==
    /\ requests[r].pc = "finally"
    /\ sessions' = IF FinallyRuns(requests[r].exit)
                   THEN [sessions EXCEPT ![requests[r].session] = @ + 1]
                   ELSE sessions
    /\ requests' = [requests EXCEPT ![r].pc = "done"]
    /\ UNCHANGED <<graph, mongo_docs, mongo_cast, rels, ratings, seed,
                   movies_collection, neo4j_driver,
                   resp>>

\* The next request arrives where one was completed.
next_request(r) ==
    /\ requests[r].pc = "done"
    /\ Len(sessions) < MaxSessions
    /\ requests' = [requests EXCEPT ![r] = Waiting]
    /\ UNCHANGED <<graph, mongo_docs, mongo_cast, rels, ratings, seed,
                   movies_collection, neo4j_driver,
                   sessions, resp>>

InitSession ==
    /\ persons = {"Ann", "Bob"}
    /\ movies = {Heat, Jaws}
    /\ released = <<>>
    /\ reviewed \in {{}, persons \X movies}
    /\ credits = {} /\ users = {} /\ rated = {}
    /\ mongo_docs = <<>> /\ mongo_cast = <<>>
    /\ movies_collection = "collection"
    /\ neo4j_driver \in {"driver", "None"}
    /\ requests = [r \in 1..MaxRequests |-> Waiting]
    /\ sessions = <<>>
    /\ Seeded
    /\ resp = NoResp

NextSession ==
    \E r \in 1..MaxRequests :
        \/ get_neo4j_session(r)
        \/ \E title \in {Heat, Up}, limit \in {-1, 1} :
                handle_movie_recommendations(r, title, limit)
        \/ \E user1, user2 \in {"Ann", "Bob", "Cy"} :
                handle_shortest_path(r, user1, user2)
        \/ close_neo4j_session(r)
        \/ next_request(r)

SpecSession == InitSession /\ [][NextSession]_vars

\* The sessions nobody closed yet.
OpenSessions == {k \in DOMAIN sessions : sessions[k] = 0}

\* The sessions held by the requests between acquisition and release.
HeldSessions ==
    {requests[r].session : r \in {r \in DOMAIN requests :
                                    requests[r].pc \in {"handler", "finally"}}}

\* C14: a session acquired through get_neo4j_session is closed exactly once
\* however the handler exits (return, NotFound, any other error): no session
\* is closed twice, the session of a completed request is closed, the open
\* sessions are those of the requests still running (none once every
\* request is completed), and no session is acquired while the driver is
\* unavailable.
C14_SessionClosedExactlyOnce ==
    /\ \A k \in DOMAIN sessions : sessions[k] <= 1
    /\ \A r \in DOMAIN requests :
          (requests[r].pc = "done" /\ requests[r].session # NoSession)
              => sessions[requests[r].session] = 1
    /\ OpenSessions = HeldSessions
    /\ (\A r \in DOMAIN requests : requests[r].pc \in {"depends", "done"})
          => OpenSessions = {}
    /\ neo4j_driver = "None" => sessions = <<>>

\* C14's case: every request completed, one whose handler returned and one
\* whose handler raised, after an earlier session was already closed.
C14_Witness ==
    /\ \A r \in DOMAIN requests : requests[r].pc = "done"
    /\ \E r1, r2 \in DOMAIN requests :
          /\ requests[r1].exit = "return" /\ requests[r2].exit = "raise"
          /\ requests[r1].session # NoSession /\ requests[r2].session # NoSession
    /\ Len(sessions) = MaxSessions

----------------------------------------------------------------------------
(* Seeding: seed.py.  The movies and comments files are the input; each    *)
(* session.run of seed_neo4j is one step.  People's names are code-point   *)
(* sequences here, so that strip() is computed.                            *)

AlSp == <<65, 108, 32>>

DefaultYear == 2000

\* batch_size: 100 in seed.py, and 1 in its place where the few rows of the
\* model are to span several batches as thousands of rows do.
BatchSizes == {1, 100}

\* str.strip(), for spaces.
RECURSIVE Strip(_)
Strip(s) ==
    IF s = <<>> THEN s
    ELSE IF Head(s) = 32 THEN Strip(Tail(s))
    ELSE IF s[Len(s)] = 32 THEN Strip(SubSeq(s, 1, Len(s) - 1))
    ELSE s

RECURSIVE Concat(_)
Concat(ss) == IF ss = <<>> THEN <<>> ELSE Head(ss) \o Concat(Tail(ss))

\* movie_data: title and m.get("year", 2000) of every document.
MovieData(docs) ==
    [i \in DOMAIN docs |->
        [title |-> docs[i].title,
         released |-> IF docs[i].year = <<>> THEN DefaultYear ELSE docs[i].year[1]]]

\* The rows a document gives for the names of one of its lists:
\* for name in names: if name and name.strip(): append(...)
CreditRows(title, names, type) ==
    LET Named(n) == Strip(n) # <<>>
        kept == SelectSeq(names, Named)
    IN  [k \in DOMAIN kept |->
            [person_name |-> Strip(kept[k]), movie_title |-> title,
             type |-> type, roles |-> RolesOf(type, title)]]

ActedInData(docs) ==
    Concat([i \in DOMAIN docs |-> CreditRows(docs[i].title, docs[i].cast, "ACTED_IN")])

DirectedData(docs) ==
    Concat([i \in DOMAIN docs |-> CreditRows(docs[i].title, docs[i].directors, "DIRECTED")])

\* people_data, one row per name: the first of its rows is kept.
RECURSIVE Unique(_)
Unique(names) ==
    IF names = <<>> THEN <<>>
    ELSE LET front == Unique(SubSeq(names, 1, Len(names) - 1))
             last == names[Len(names)]
         IN  IF last \in Range(front) THEN front ELSE Append(front, last)

PeopleData(docs) ==
    LET rows == Concat([i \in DOMAIN docs |->
                    CreditRows(docs[i].title, docs[i].cast, "ACTED_IN")
                    \o CreditRows(docs[i].title, docs[i].directors, "DIRECTED")])
    IN  Unique([k \in DOMAIN rows |-> rows[k].person_name])

\* reviewed_data: a comment gives a row when a document has its movie_id (a
\* document's _id is its position in the file) and the comment has a name.
ReviewedData(docs, comments) ==
    LET Usable(c) == c.movie_id \in DOMAIN docs /\ c.name # <<>>
        kept == SelectSeq(comments, Usable)
    IN  [k \in DOMAIN kept |->
            [person_name |-> kept[k].name,
             movie_title |-> docs[kept[k].movie_id].title,
             type |-> "REVIEWED", roles |-> <<>>]]

\* As MergeRel, with CREATE in the place of MERGE.
CreateRel(b, rel) ==
    [x \in DOMAIN b \cup {rel} |->
        IF x \notin DOMAIN b THEN 1 ELSE IF x = rel THEN b[x] + 1 ELSE b[x]]

\* MERGE (p)-[:TYPE {props}]->(m): a relationship of that type between the
\* two nodes with those properties is matched if there is one, else created.
MergeRel(b, rel) ==
    IF rel \in DOMAIN b THEN b
    ELSE [x \in DOMAIN b \cup {rel} |-> IF x \in DOMAIN b THEN b[x] ELSE 1]

\* UNWIND $batch AS row MATCH (p:Person {name: ...}) MATCH (m:Movie {title: ...})
\* MERGE (p)-[...]->(m): a row whose person or movie is missing does nothing.
RECURSIVE MergeRels(_, _)
MergeRels(b, batch) ==
    IF batch = <<>> THEN b
    ELSE LET row == Head(batch)
             rel == <<row.person_name, row.type, row.movie_title, row.roles>>
         IN  MergeRels(IF row.person_name \in persons /\ row.movie_title \in movies
                       THEN MergeRel(b, rel) ELSE b,
                       Tail(batch))

\* UNWIND $batch AS row MERGE (m:Movie {title: row.title})
\* ON CREATE SET m.released = row.released
RECURSIVE MergeMovies(_, _)
MergeMovies(rl, batch) ==
    IF batch = <<>> THEN rl
    ELSE LET row == Head(batch)
         IN  MergeMovies(IF row.title \in DOMAIN rl THEN rl
                         ELSE [t \in DOMAIN rl \cup {row.title} |->
                                  IF t = row.title THEN row.released ELSE rl[t]],
                         Tail(batch))

Phases == <<"movies", "people", "acted_in", "directed", "reviewed", "done">>

Rows(pc) ==
    CASE pc = "movies" -> MovieData(seed.movies)
      [] pc = "people" -> PeopleData(seed.movies)
      [] pc = "acted_in" -> ActedInData(seed.movies)
      [] pc = "directed" -> DirectedData(seed.movies)
      [] pc = "reviewed" -> ReviewedData(seed.movies, seed.comments)
      [] OTHER -> <<>>

\* seed_mongo: delete_many({}), then insert_many(movies).
seed_mongo ==
    /\ seed.pc = "mongo"
    /\ mongo_docs' = [i \in DOMAIN seed.movies |-> seed.movies[i].title]
    /\ mongo_cast' = [i \in DOMAIN seed.movies |-> seed.movies[i].cast]
    /\ seed' = [seed EXCEPT !.pc = "clear"]
    /\ UNCHANGED <<graph, rels, ratings, movies_collection, neo4j_driver,
                   requests, sessions, resp>>

\* MATCH (n) DETACH DELETE n
clear_graph ==
    /\ seed.pc = "clear"
    /\ persons' = {} /\ movies' = {} /\ released' = <<>>
    /\ reviewed' = {} /\ credits' = {} /\ users' = {} /\ rated' = {}
    /\ rels' = <<>> /\ ratings' = <<>>
    /\ seed' = [seed EXCEPT !.pc = "movies", !.at = 0]
    /\ UNCHANGED <<mongo_docs, mongo_cast, movies_collection, neo4j_driver,
                   requests, sessions, resp>>

\* for i in range(0, len(rows), batch_size): session.run(..., batch=rows[i:i+batch_size])
run_batch ==
    LET rows == Rows(seed.pc)
        batch == SubSeq(rows, seed.at + 1, Min(seed.at + seed.batch_size, Len(rows)))
    IN  /\ seed.pc \in Range(Phases) /\ seed.at < Len(rows)
        /\ seed' = [seed EXCEPT !.at = seed.at + seed.batch_size]
        /\ released' = IF seed.pc = "movies" THEN MergeMovies(released, batch)
                       ELSE released
        /\ movies' = IF seed.pc = "movies" THEN movies \cup {batch[k].title : k \in DOMAIN batch}
                     ELSE movies
        /\ persons' = IF seed.pc = "people" THEN persons \cup Range(batch) ELSE persons
        /\ rels' = IF seed.pc \in {"acted_in", "directed", "reviewed"}
                   THEN MergeRels(rels, batch) ELSE rels
        /\ reviewed' = {<<r[1], r[3]>> : r \in {r \in DOMAIN rels' : r[2] = "REVIEWED"}}
        /\ credits' = {<<r[1], r[2], r[3]>> : r \in {r \in DOMAIN rels' : r[2] # "REVIEWED"}}
        /\ UNCHANGED <<users, rated, ratings, mongo_docs, mongo_cast, movies_collection,
                       neo4j_driver, requests, sessions, resp>>

\* The loop over the batches of one kind of row is over: on to the next kind.
next_rows ==
    /\ \E k \in 1..(Len(Phases) - 1) :
          /\ seed.pc = Phases[k]
          /\ seed.at >= Len(Rows(seed.pc))
          /\ seed' = [seed EXCEPT !.pc = Phases[k + 1], !.at = 0]
    /\ UNCHANGED <<graph, rels, ratings, mongo_docs, mongo_cast, movies_collection,
                   neo4j_driver, requests, sessions, resp>>

SeedDoc(title, cast, directors) ==
    [title |-> title, year |-> IF title = Heat THEN <<1995>> ELSE <<>>,
     cast |-> cast, directors |-> directors]

DocPool ==
    {SeedDoc(t, c, d) : t \in {Heat, Jaws}, c \in {<<Al, AlSp>>, <<Val, Al>>},
                        d \in {<<>>, <<Al>>}}

Comment(name, movie_id) == [name |-> name, movie_id |-> movie_id]

CommentPool ==
    {<<>>, <<Comment(Al, 1)>>, <<Comment(Al, 1), Comment(Val, 2), Comment(Al, 1)>>}

\* The stores before seeding: empty, or a graph made by other means that
\* holds one edge twice.
InitSeed ==
    /\ seed \in [pc : {"mongo"}, at : {0}, batch_size : BatchSizes,
                 movies : SeqsUpTo(DocPool, MaxDocs), comments : CommentPool]
    /\ \/ /\ persons = {} /\ movies = {} /\ released = <<>>
          /\ credits = {} /\ rels = <<>>
       \/ /\ persons = {Al} /\ movies = {Heat} /\ released = <<>>
          /\ credits = {<<Al, "ACTED_IN", Heat>>}
          /\ rels = [rel \in {<<Al, "ACTED_IN", Heat, <<>>>>} |-> 2]
    /\ reviewed = {} /\ users = {} /\ rated = {} /\ ratings = <<>>
    /\ mongo_docs = <<>> /\ mongo_cast = <<>>
    /\ Connected
    /\ resp = NoResp

NextSeed == seed_mongo \/ clear_graph \/ run_batch \/ next_rows

SpecSeed == InitSeed /\ [][NextSeed]_vars

\* The number of edges of a type from a person to a movie.
EdgeCount(p, type, m) ==
    SumOver({r \in DOMAIN rels : r[1] = p /\ r[2] = type /\ r[3] = m}, rels)

\* The relationship rows of the input, all kinds.
RelRows ==
    ActedInData(seed.movies) \o DirectedData(seed.movies)
        \o ReviewedData(seed.movies, seed.comments)

\* The rows of the input the seeding has run so far.
RowsRun ==
    LET Done(k) == \E j \in 1..Len(Phases) : Phases[j] = seed.pc /\ k < j
        DoneRows(k) == IF Done(k) THEN Rows(Phases[k])
                       ELSE IF Phases[k] = seed.pc
                       THEN SubSeq(Rows(seed.pc), 1, Min(seed.at, Len(Rows(seed.pc))))
                       ELSE <<>>
    IN  DoneRows(3) \o DoneRows(4) \o DoneRows(5)

\* C16: merging an edge for the same (person, movie, type) twice or more,
\* within a batch or across batches, leaves one such edge: once the graph
\* is cleared there is never more than one edge of a type between a person
\* and a movie, and every relationship row run so far whose person and
\* movie exist has exactly one.
C16_MergedEdgeIsSingle ==
    seed.pc \in Range(Phases) =>
        /\ \A r \in DOMAIN rels : EdgeCount(r[1], r[2], r[3]) = 1
        /\ \A k \in DOMAIN RowsRun :
              LET row == RowsRun[k] IN
              (row.person_name \in persons /\ row.movie_title \in movies)
                  => EdgeCount(row.person_name, row.type, row.movie_title) = 1

\* C16's case: seeding is over, in batches of one row, and the same ACTED_IN
\* edge was asked for by two rows.
C16_Witness ==
    /\ seed.pc = "done" /\ seed.batch_size = 1
    /\ \E i, j \in DOMAIN RelRows :
          /\ i < j /\ RelRows[i] = RelRows[j]
          /\ RelRows[i].type = "ACTED_IN"
          /\ EdgeCount(RelRows[i].person_name, "ACTED_IN", RelRows[i].movie_title) = 1

----------------------------------------------------------------------------
(* Top-rated movies of the graph store: routers/analytics.py.  A mean is   *)
(* kept as <<sum, count>> of the ratings, null as <<>>; the rounded mean   *)
(* of a response is in tenths (43 is 4.3).                                 *)

\* avg(r.rating) over the REVIEWED edges of a movie (the ones without a
\* rating are skipped) and count(p) over all of them.
TopRatedRow(title) ==
    LET edges == {e \in reviewed : e[2] = title}
        scored == edges \cap DOMAIN ratings
    IN  [title |-> title,
         avg |-> IF scored = {} THEN <<>>
                 ELSE <<SumOver(scored, ratings), Cardinality(scored)>>,
         review_count |-> Cardinality(edges)]

\* MATCH (p:Person)-[r:REVIEWED]->(m:Movie) RETURN m.title AS title, ...
TopRatedRows == {TopRatedRow(m) : m \in {e[2] : e \in reviewed}}

\* a before b in descending order of the mean; null sorts first there.
MeanGreater(a, b) ==
    IF a = <<>> THEN b # <<>>
    ELSE b # <<>> /\ a[1] * b[2] > b[1] * a[2]

MeanEqual(a, b) ==
    IF a = <<>> \/ b = <<>> THEN a = b
    ELSE a[1] * b[2] = b[1] * a[2]

\* As ByMeanThenCount, with the second key of ORDER BY left out.
ByMean(a, b) == ~MeanGreater(b.avg, a.avg)

\* ORDER BY avg_rating DESC, review_count DESC: whether row a may come
\* before row b.
ByMeanThenCount(a, b) ==
    \/ MeanGreater(a.avg, b.avg)
    \/ MeanEqual(a.avg, b.avg) /\ a.review_count >= b.review_count

\* session.run(query, limit=limit)
TopRatedQuery(limit) ==
    IF limit < 0 THEN {Raise("Neo4jError", 0)}
    ELSE {Return(SubSeq(s, 1, Min(limit, Len(s)))) :
            s \in {p \in Perms(TopRatedRows) :
                     \A i, j \in 1..Len(p) : i < j => ByMeanThenCount(p[i], p[j])}}

\* round(x, 1) of x = sum / count, in tenths: to the nearest tenth, a tie
\* to the even one.  (A tie needs x to be an odd multiple of 1/20; with
\* fewer than 20 ratings that is a multiple of 1/4, which a float holds
\* exactly, so that round sees the tie.)
RoundTenths(avg) ==
    LET q == (10 * avg[1]) \div avg[2]
        r == (10 * avg[1]) % avg[2]
    IN  IF 2 * r < avg[2] THEN q
        ELSE IF 2 * r > avg[2] THEN q + 1
        ELSE IF q % 2 = 0 THEN q ELSE q + 1

\* for record in result: movies.append({..., round(record["avg_rating"], 1), ...})
\* round(None, 1) raises TypeError.
TopRatedBody(limit) ==
    {IF q.kind = "raise" THEN q
     ELSE IF \E i \in DOMAIN q.value : q.value[i].avg = <<>>
     THEN Raise("TypeError", 0)
     ELSE Return([i \in DOMAIN q.value |->
                    [title |-> q.value[i].title,
                     avg_rating |-> RoundTenths(q.value[i].avg),
                     review_count |-> q.value[i].review_count]])
     : q \in TopRatedQuery(limit)}

get_top_rated_movies_neo4j(limit) ==
    \E o \in TopRatedBody(limit) :
        /\ resp' = [op |-> "get_top_rated_movies_neo4j", limit |-> limit,
                    status |-> StatusOf(ExceptException(o)),
                    body |-> IF o.kind = "return" THEN o.value ELSE <<>>]
        /\ UNCHANGED <<graph, mongo_docs, rest>>

----------------------------------------------------------------------------
(* Graphs of rated reviews: each movie is reviewed by the first few of the *)
(* people; either none of its reviews carries a rating, or all do, the     *)
(* first few of them 5 and the others 4.                                   *)

MaxReviewers == 7

ReviewerNames == <<"Ann", "Bob", "Cy", "Dee", "Eve", "Fay", "Gus", "Hal", "Ida">>

FirstReviewers(k) == {ReviewerNames[i] : i \in 1..k}

\* <<k, j>>: k reviews, the first j of them rating 5; j = -1: none rated.
ReviewProfiles ==
    {pr \in (0..MaxReviewers) \X (-1..MaxReviewers) :
        pr[2] <= pr[1] /\ (pr[1] = 0 => pr[2] = 0)}

InitRated ==
    /\ persons = FirstReviewers(MaxReviewers)
    /\ movies = {Heat, Jaws}
    /\ released = <<>> /\ credits = {} /\ users = {} /\ rated = {}
    /\ \E prof \in [movies -> ReviewProfiles] :
          /\ reviewed = UNION {FirstReviewers(prof[m][1]) \X {m} : m \in movies}
          /\ ratings = [e \in UNION {IF prof[m][2] = -1 THEN {}
                                     ELSE FirstReviewers(prof[m][1]) \X {m} : m \in movies}
                          |-> IF e[1] \in FirstReviewers(prof[e[2]][2]) THEN 5 ELSE 4]
    /\ rels = RelsOf(reviewed, credits)
    /\ seed = NoSeed
    /\ mongo_docs = <<>> /\ mongo_cast = <<>>
    /\ Connected
    /\ resp = NoResp

NextRated == \E limit \in 1..MaxLimit : get_top_rated_movies_neo4j(limit)

SpecRated == InitRated /\ [][NextRated]_vars

IsTopRated == resp.op = "get_top_rated_movies_neo4j" /\ resp.status = 200

Reviewers(title) == {p \in persons : <<p, title>> \in reviewed}

\* The mean of a movie's ratings, as <<sum, count>>.
ExactMean(title) ==
    LET scored == {e \in reviewed : e[2] = title} \cap DOMAIN ratings
    IN  <<SumOver(scored, ratings), Cardinality(scored)>>

\* C19 as stated: the entries are in descending order of the returned
\* (rounded) mean; two entries with equal returned means are in descending
\* order of review_count; review_count is the number of distinct reviewers
\* of the movie.
C19_OrderedByRoundedMeanThenCount ==
    IsTopRated =>
        /\ \A i, j \in DOMAIN resp.body : i < j =>
              /\ resp.body[i].avg_rating >= resp.body[j].avg_rating
              /\ resp.body[i].avg_rating = resp.body[j].avg_rating
                    => resp.body[i].review_count >= resp.body[j].review_count
        /\ \A i \in DOMAIN resp.body :
              resp.body[i].review_count = Cardinality(Reviewers(resp.body[i].title))

\* C19 as the code has it: the same, the tie being one of the exact means
\* (two movies whose different means round to the same tenth stay in the
\* order of their means).
C19_OrderedByMeanThenCount ==
    IsTopRated =>
        /\ \A i, j \in DOMAIN resp.body : i < j =>
              /\ resp.body[i].avg_rating >= resp.body[j].avg_rating
              /\ MeanEqual(ExactMean(resp.body[i].title), ExactMean(resp.body[j].title))
                    => resp.body[i].review_count >= resp.body[j].review_count
        /\ \A i \in DOMAIN resp.body :
              resp.body[i].review_count = Cardinality(Reviewers(resp.body[i].title))

\* C19's case: two entries of equal mean and different review_count.
C19_Witness ==
    /\ IsTopRated /\ Len(resp.body) = 2
    /\ MeanEqual(ExactMean(resp.body[1].title), ExactMean(resp.body[2].title))
    /\ resp.body[1].review_count > resp.body[2].review_count

----------------------------------------------------------------------------
(* The other graph aggregations of routers/analytics.py.                   *)

\* MATCH (p:Person)-[:REVIEWED]->(m:Movie)
\* RETURN p.name AS name, count(m) AS review_count
TopReviewerRows ==
    {[name |-> p, review_count |-> Cardinality({e \in reviewed : e[1] = p})] :
        p \in {e[1] : e \in reviewed}}

\* ORDER BY review_count DESC LIMIT $limit
TopReviewersQuery(limit) ==
    IF limit < 0 THEN {Raise("Neo4jError", 0)}
    ELSE {Return(SubSeq(s, 1, Min(limit, Len(s)))) :
            s \in {p \in Perms(TopReviewerRows) :
                     \A i, j \in 1..Len(p) : i < j =>
                        p[i].review_count >= p[j].review_count}}

get_top_reviewers(limit) ==
    \E q \in TopReviewersQuery(limit) :
        /\ resp' = [op |-> "get_top_reviewers", limit |-> limit,
                    status |-> StatusOf(ExceptException(q)),
                    body |-> IF q.kind = "return" THEN q.value ELSE <<>>]
        /\ UNCHANGED <<graph, mongo_docs, rest>>

\* As MatchMovie, with MERGE in the place of MATCH: a movie that is missing
\* is created.
MergeMovie(title) == movies \cup {title}

\* session.run("MATCH (m:Movie {title: $title}) RETURN m"): the Movie nodes
\* after the statement, which are the ones before it.
MatchMovie(title) == movies

\* The place of a name in the order of strings.
NameIndex(name) == CHOOSE i \in DOMAIN ReviewerNames : ReviewerNames[i] = name

\* MATCH (p:Person)-[r]->(m:Movie) WHERE m.title = $title ... ORDER BY
\* relationship, name: the people of the relationships of one type, by name,
\* each with the roles of the relationship (null as <<>>).
CastOfType(title, type) ==
    LET rs == {r \in DOMAIN rels : r[2] = type /\ r[3] = title /\ r[1] \in persons}
        s == CHOOSE p \in Perms(rs) :
                \A i, j \in 1..Len(p) : i < j => NameIndex(p[i][1]) <= NameIndex(p[j][1])
    IN  [k \in DOMAIN s |-> [name |-> s[k][1], roles |-> s[k][4]]]

MovieCastBody(title) ==
    IF ~MovieExists(title) THEN Raise("HTTPException", 404)
    ELSE Return([movie |-> title,
                 cast |-> CastOfType(title, "ACTED_IN"),
                 directors |-> CastOfType(title, "DIRECTED"),
                 producers |-> CastOfType(title, "PRODUCED"),
                 writers |-> CastOfType(title, "WROTE")])

get_movie_cast(title) ==
    LET o == ExceptHTTPExceptionReraise(MovieCastBody(title))
    IN  /\ resp' = [op |-> "get_movie_cast", target |-> title,
                    status |-> StatusOf(o),
                    body |-> IF o.kind = "return" THEN o.value ELSE <<>>]
        /\ movies' = MatchMovie(title)
        /\ UNCHANGED <<persons, released, reviewed, credits, users, rated,
                       mongo_docs, rest>>

----------------------------------------------------------------------------
(* The core operations, in any order, on stores of any content.            *)

InitCore ==
    /\ persons = {"Ann", "Bob"}
    /\ movies = {Heat, Jaws}
    /\ released \in {<<>>, [m \in movies |-> 2000]}
    /\ reviewed \in SUBSET (persons \X movies)
    /\ credits \in {{}, {<<"Ann", "ACTED_IN", Heat>>, <<"Bob", "ACTED_IN", Heat>>,
                         <<"Ann", "DIRECTED", Jaws>>}}
    /\ users = {} /\ rated = {}
    /\ ratings \in {<<>>, [e \in reviewed |-> 4]}
    /\ rels = RelsOf(reviewed, credits)
    /\ seed = NoSeed
    /\ mongo_docs \in SeqsUpTo({Heat, Up}, MaxDocs)
    /\ mongo_cast = [i \in DOMAIN mongo_docs |-> <<>>]
    /\ Connected
    /\ resp = NoResp

NextCore ==
    \/ \E title \in {Heat, Up}, limit \in 1..MaxLimit :
            get_movie_recommendations(title, limit)
    \/ \E name \in {"Ann", "Cy"}, limit \in 1..MaxLimit :
            get_user_recommendations(name, limit)
    \/ \E user1, user2 \in {"Ann", "Bob"} : get_shortest_path(user1, user2)
    \/ get_common_movies
    \/ api_common_movies
    \/ \E limit \in 1..MaxLimit : get_top_rated_movies_neo4j(limit)
    \/ \E limit \in 1..MaxLimit : get_top_reviewers(limit)
    \/ \E title \in {Heat, Up} : get_movie_cast(title)

SpecCore == InitCore /\ [][NextCore]_vars

\* C15: the core operations (movie and person recommendations, shortest
\* path, reconciliation, the analytics aggregations) are read-only: a call
\* leaves the contents of the graph store and of the document store as they
\* were.
C15_CoreOperationsReadOnly ==
    [][/\ graph' = graph /\ rels' = rels /\ ratings' = ratings
       /\ mongo_docs' = mongo_docs /\ mongo_cast' = mongo_cast]_vars

\* C15's case: get_movie_cast answered NotFound for a movie the graph does
\* not hold, after which it still does not hold it.
C15_Witness ==
    /\ resp.op = "get_movie_cast" /\ resp.status = 404
    /\ resp.target \notin movies
    /\ reviewed # {} /\ mongo_docs # <<>>

----------------------------------------------------------------------------
(* Updating a movie of the document store: db_mongo.py and app.py.  Of the *)
(* fields of a MovieUpdate the model holds cast; a field of the payload is *)
(* <<>> for None and <<v>> for the value v.                                *)

TheHeat == <<84, 104, 101, 32, 72, 101, 97, 116>>

\* {k: v for k, v in payload.model_dump().items() if v is not None}
UpdateDict(payload) == {k \in DOMAIN payload : payload[k] # <<>>}

\* movies.update_one({"title": {"$regex": title, "$options": "i"}},
\*                   {"$set": payload}, upsert=False)
\* The first document of the collection that matches gets the fields set;
\* modified_count is 1 if that changed it, else 0.
update_movie(title, payload) ==
    LET hits == {i \in DOMAIN mongo_docs : DocMatches(i, "title", title)}
    IN  IF hits = {} THEN [cast |-> mongo_cast, modified_count |-> 0]
        ELSE LET first == CHOOSE i \in hits : \A j \in hits : i <= j
                 after == IF "cast" \in UpdateDict(payload)
                          THEN [mongo_cast EXCEPT ![first] = payload.cast[1]]
                          ELSE mongo_cast
             IN  [cast |-> after,
                  modified_count |-> IF after = mongo_cast THEN 0 ELSE 1]

\* app.py: 400 for an empty payload, 404 when nothing was modified.
api_update_movie(title, payload) ==
    LET empty == UpdateDict(payload) = {}
        res == IF empty THEN [cast |-> mongo_cast, modified_count |-> 0]
               ELSE update_movie(title, payload)
        o == IF empty THEN Raise("HTTPException", 400)
             ELSE IF res.modified_count = 0 THEN Raise("HTTPException", 404)
             ELSE Return([updated |-> res.modified_count])
    IN  /\ mongo_cast' = res.cast
        /\ resp' = [op |-> "api_update_movie", title |-> title, payload |-> payload,
                    status |-> StatusOf(o), modified |-> res.modified_count,
                    body |-> IF o.kind = "return" THEN o.value ELSE <<>>]
        /\ UNCHANGED <<graph, mongo_docs, movies_collection, neo4j_driver,
                       requests, sessions, rels, ratings, seed>>

InitUpdate ==
    /\ persons = {} /\ movies = {} /\ released = <<>>
    /\ reviewed = {} /\ credits = {} /\ users = {} /\ rated = {}
    /\ mongo_docs \in SeqsUpTo({Heat, HEAT, TheHeat, Jaws}, MaxDocs)
    /\ mongo_cast \in [DOMAIN mongo_docs -> {<<>>, <<Al>>}]
    /\ Connected /\ Seeded
    /\ resp = NoResp

NextUpdate ==
    \E title \in {Heat, Jaws}, cast \in {<<>>, <<<<>>>>, <<<<Al>>>>, <<<<Val>>>>} :
        api_update_movie(title, [cast |-> cast])

SpecUpdate == InitUpdate /\ [][NextUpdate]_vars

\* The documents a step changed.
ChangedDocs == {i \in DOMAIN mongo_docs : mongo_cast'[i] # mongo_cast[i]}

\* C21: an update changes at most one document, and one whose title is the
\* given title up to letter case; a document whose title only contains the
\* given title is never changed; when no document has that title nothing
\* is changed and 0 is the count of modified documents.
C21_UpdateOnlyTheTitledDocument ==
    [][resp'.op = "api_update_movie" =>
        /\ mongo_docs' = mongo_docs
        /\ Cardinality(ChangedDocs) <= 1
        /\ \A i \in ChangedDocs : Lower(mongo_docs[i]) = Lower(resp'.title)
        /\ (~\E i \in DOMAIN mongo_docs : Lower(mongo_docs[i]) = Lower(resp'.title))
              => (ChangedDocs = {} /\ resp'.modified = 0)]_vars

====
